---- MODULE Spec2Model ----
(***************************************************************************)
(* Front-end glue of "AI Crop Doctor": the emergency-request modal         *)
(* (src/unnamed/part_000), Firebase Google sign-in (src/static/js/auth.js) *)
(* and the client-side translation layer (src/static/js/language.js).      *)
(* The three scripts share no state; each has its own specification over   *)
(* its own variables (SpecEmergency, SpecAuth, SpecLang, SpecChunk).       *)
(***************************************************************************)
EXTENDS Integers, Sequences, FiniteSets, TLC

VARIABLES
  \* ---- emergency modal (src/unnamed/part_000) ----
  emDom,          \* which optional elements exist: userImage, emergencySuccess, emergencySubmitBtn
  modalHidden,    \* emergencyModal.classList contains 'hidden'
  successHidden,  \* emergencySuccess.classList contains 'hidden'
  form,           \* contents of emergencyForm: a text field and the files of #userImage
  btn,            \* emergencySubmitBtn: [disabled, textContent]
  emAlerts,       \* alert() messages shown by the emergency script, in order
  emPosts,        \* number of POST /emergency requests issued so far
  emPending,      \* number of POST /emergency requests not yet settled
  postsAtOpen,    \* emPosts when the modal last went from hidden to shown
  emLast,         \* the last event handled and, for a settled request, its response
  \* ---- Firebase sign-in (src/static/js/auth.js) ----
  sdk,            \* how the Firebase SDK behaves at script load
  auDom,          \* which elements exist: loginFrame, mainContent, userAvatar, userNameDisplay, loginBtn
  auPc,           \* "boot" before the script has run, "ready" after
  auth,           \* `auth` is non-null
  googleProvider, \* `googleProvider` is non-null
  ui,             \* classList 'hidden' of the four elements, avatar src, user name text
  auAlerts,       \* alert() messages shown by auth.js, in order
  popups,         \* signInWithPopup promises not yet settled
  signOuts,       \* auth.signOut promises not yet settled
  auLast,         \* the last event handled by auth.js and its input
  \* ---- translation layer (src/static/js/language.js) ----
  page0,          \* the page as served: text-node values and attribute values
  laPc,           \* "boot" before DOMContentLoaded, "ready" after
  nodeValue,      \* nodeValue of each text node under an eligible parent
  attrValue,      \* value of each placeholder/title/aria-label of an eligible element
  originalTextByNode,  \* WeakMap node -> original nodeValue
  originalAttrsByEl,   \* WeakMap el -> {attr: original value}, per (el, attr)
  selValue,       \* value of the .languageSelect selectors
  storage,        \* localStorage: acd_lang and acd_lang_cache_v1
  calls,          \* the applyLanguage calls of this page that reached the chunk loop
  laAlerts,       \* number of alert() dialogs shown by language.js
  laBudget,       \* language events the model still explores
  laLast          \* the last event handled by language.js

emVars == <<emDom, modalHidden, successHidden, form, btn, emAlerts, emPosts, emPending,
            postsAtOpen, emLast>>

auVars == <<sdk, auDom, auPc, auth, googleProvider, ui, auAlerts, popups, signOuts, auLast>>

laVars == <<page0, laPc, nodeValue, attrValue, originalTextByNode, originalAttrsByEl,
            selValue, storage, calls, laAlerts, laBudget, laLast>>

vars == <<emVars, auVars, laVars>>

\* the variables of the other scripts, which a script's handlers never touch
notEm == <<auVars, laVars>>
notAu == <<emVars, laVars>>
notLa == <<emVars, auVars>>

None == "none"

(***************************************************************************)
(*                     EMERGENCY MODAL  (part_000)                         *)
(***************************************************************************)

\* ---- bounds of the emergency model ----
MaxPosts == 2
MaxEmAlerts == 2
MaxFiles == 2

\* 2 MB limit of the size check, in MB
LimitMB == 2

\* file sizes in bytes around the limit: exactly 2 MB and one byte more
FileSizes == {2 * 1024 * 1024, 2 * 1024 * 1024 + 1}

FieldTexts == {"", "help"}

FileLists == UNION {[1..n -> FileSizes] : n \in 0..MaxFiles}

\* form.reset(): every control back to its default value, no file selected
EmptyForm == [text |-> "", files |-> <<>>]

SizeAlert == "Image size must be less than 2 MB"
DefaultHttpError == "Failed to submit emergency request"
DefaultCatchAlert == "Failed to submit. Please try again."
NullBodyError == "TypeError: Cannot read properties of null"

\* Responses to POST /emergency: a 2xx, a non-2xx whose JSON body has an `error`
\* text / has none / is the JSON value null, or a rejected fetch (network error)
\* whose Error carries a message or an empty one.
EmResponses ==
  {[kind |-> "ok", error |-> None],
   [kind |-> "http", error |-> "Server busy"],
   [kind |-> "http", error |-> None],
   [kind |-> "http", error |-> "nullbody"],
   [kind |-> "network", error |-> "Failed to fetch"],
   [kind |-> "network", error |-> ""]}

\* userImage.files[0].size / 1024 / 1024 > 2.  The quotient is a real number; the
\* division by 1024*1024 is exact, so it exceeds 2 iff size exceeds 2*1024*1024.
\* Faulty variant: the quotient truncated to whole MB before the comparison.
TooLargeTruncated(files) == Len(files) > 0 /\ (files[1] \div 1024) \div 1024 > LimitMB

TooLarge(files) == Len(files) > 0 /\ files[1] > LimitMB * 1024 * 1024

\* message of the Error thrown/caught in the try block for a failed response
ErrMessage(r) ==
  IF r.kind = "http"
    THEN IF r.error = "nullbody" THEN NullBodyError
         ELSE IF r.error = None THEN DefaultHttpError ELSE r.error
    ELSE r.error

\* alert(err?.message || 'Failed to submit. Please try again.')
CatchAlert(r) == IF ErrMessage(r) = "" THEN DefaultCatchAlert ELSE ErrMessage(r)

EmInit ==
  /\ emDom \in [userImage : BOOLEAN, success : BOOLEAN, submitBtn : BOOLEAN]
  /\ modalHidden = TRUE
  /\ successHidden = TRUE
  /\ form = EmptyForm
  /\ btn = [disabled |-> FALSE, textContent |-> "Submit"]
  /\ emAlerts = <<>>
  /\ emPosts = 0
  /\ emPending = 0
  /\ postsAtOpen = 0
  /\ emLast = [ev |-> "load", resp |-> None]

\* openEmergencyModal: click on emergencyBtn / emergencyBtnMobile
OpenEmergencyModal ==
  /\ successHidden' = (IF emDom.success THEN TRUE ELSE successHidden)
  /\ modalHidden' = FALSE
  /\ postsAtOpen' = (IF modalHidden THEN emPosts ELSE postsAtOpen)
  /\ emLast' = [ev |-> "open", resp |-> None]
  /\ UNCHANGED <<emDom, form, btn, emAlerts, emPosts, emPending>>
  /\ UNCHANGED notEm

\* closeEmergencyModal: click on closeEmergency or on the modal backdrop
CloseEmergencyModal ==
  /\ ~modalHidden
  /\ modalHidden' = TRUE
  /\ form' = EmptyForm
  /\ successHidden' = (IF emDom.success THEN TRUE ELSE successHidden)
  /\ emLast' = [ev |-> "close", resp |-> None]
  /\ UNCHANGED <<emDom, btn, emAlerts, emPosts, emPending, postsAtOpen>>
  /\ UNCHANGED notEm

\* The user fills the form of the open modal (files only when #userImage exists).
EditForm ==
  /\ ~modalHidden
  /\ \E t \in FieldTexts, fs \in FileLists :
       /\ (~emDom.userImage => fs = <<>>)
       /\ form' = [text |-> t, files |-> fs]
       /\ form' # form
  /\ emLast' = [ev |-> "edit", resp |-> None]
  /\ UNCHANGED <<emDom, modalHidden, successHidden, btn, emAlerts, emPosts, emPending, postsAtOpen>>
  /\ UNCHANGED notEm

\* A submit event reaches the form: the modal is open and, when the submit button
\* exists, it is not disabled (a disabled submit button submits nothing).
SubmitEvent == ~modalHidden /\ (emDom.submitBtn => ~btn.disabled)

\* submit handler, the size check: alert and return
SubmitRejected ==
  /\ SubmitEvent
  /\ TooLarge(form.files)
  /\ Len(emAlerts) < MaxEmAlerts
  /\ emAlerts' = Append(emAlerts, SizeAlert)
  /\ emLast' = [ev |-> "rejected", resp |-> None]
  /\ UNCHANGED <<emDom, modalHidden, successHidden, form, btn, emPosts, emPending, postsAtOpen>>
  /\ UNCHANGED notEm

\* submit handler up to `await fetch('/emergency', ...)`
SubmitAccepted ==
  /\ SubmitEvent
  /\ ~TooLarge(form.files)
  /\ emPosts < MaxPosts
  /\ btn' = (IF emDom.submitBtn THEN [disabled |-> TRUE, textContent |-> "Submitting..."] ELSE btn)
  /\ emPosts' = emPosts + 1
  /\ emPending' = emPending + 1
  /\ emLast' = [ev |-> "submit", resp |-> None]
  /\ UNCHANGED <<emDom, modalHidden, successHidden, form, emAlerts, postsAtOpen>>
  /\ UNCHANGED notEm

\* Faulty variant: no finally block, the button is left as the submission set it.
NoFinally == btn

\* finally { emergencySubmitBtn.disabled = false; textContent = 'Submit' }
Finally == IF emDom.submitBtn THEN [disabled |-> FALSE, textContent |-> "Submit"] ELSE btn

\* the response is 2xx: try block runs to its end, then finally
EmergencyOk ==
  /\ emPending > 0
  /\ \E r \in EmResponses :
       /\ r.kind = "ok"
       /\ emLast' = [ev |-> "settled", resp |-> r]
  /\ successHidden' = (IF emDom.success THEN FALSE ELSE successHidden)
  /\ form' = EmptyForm
  /\ btn' = Finally
  /\ emPending' = emPending - 1
  /\ UNCHANGED <<emDom, modalHidden, emAlerts, emPosts, postsAtOpen>>
  /\ UNCHANGED notEm

\* Faulty variant: the form reset moved into the finally block.
EmergencyFailedResets ==
  /\ emPending > 0
  /\ Len(emAlerts) < MaxEmAlerts
  /\ \E r \in EmResponses :
       /\ r.kind # "ok"
       /\ emAlerts' = Append(emAlerts, CatchAlert(r))
       /\ emLast' = [ev |-> "settled", resp |-> r]
  /\ btn' = Finally
  /\ form' = EmptyForm
  /\ emPending' = emPending - 1
  /\ UNCHANGED <<emDom, modalHidden, successHidden, emPosts, postsAtOpen>>
  /\ UNCHANGED notEm

\* fetch rejects or the response is not 2xx: catch block, then finally
EmergencyFailed ==
  /\ emPending > 0
  /\ Len(emAlerts) < MaxEmAlerts
  /\ \E r \in EmResponses :
       /\ r.kind # "ok"
       /\ emAlerts' = Append(emAlerts, CatchAlert(r))
       /\ emLast' = [ev |-> "settled", resp |-> r]
  /\ btn' = Finally
  /\ emPending' = emPending - 1
  /\ UNCHANGED <<emDom, modalHidden, successHidden, form, emPosts, postsAtOpen>>
  /\ UNCHANGED notEm

EmNext ==
  \/ OpenEmergencyModal
  \/ CloseEmergencyModal
  \/ EditForm
  \/ SubmitRejected
  \/ SubmitAccepted
  \/ EmergencyOk
  \/ EmergencyFailed

(***************************************************************************)
(*                     FIREBASE SIGN-IN  (auth.js)                         *)
(***************************************************************************)

\* ---- bounds of the auth model ----
MaxAuAlerts == 2
MaxPopups == 2

\* "ok": firebase is defined and initializeApp/auth() succeed;
\* "missing": typeof firebase === 'undefined';
\* "initThrows": firebase.initializeApp throws (firebase.auth exists);
\* "noAuthModule": firebase is defined without firebase.auth, so firebase.auth() throws.
SdkStates == {"ok", "missing", "initThrows", "noAuthModule"}

\* a string is a sequence of characters
DisplayNames == {<<>>, <<"B">>, <<"A", "n", " ", "L">>}
PhotoURLs == {None, "photo.png"}
\* a Firebase user: displayName is null (hasName = FALSE) or a string, photoURL
\* is null (None) or a URL
Users == {u \in [hasName : BOOLEAN, displayName : DisplayNames, photoURL : PhotoURLs] :
            ~u.hasName => u.displayName = <<>>}
\* placeholder of auLast.user for events that carry no user
NoUser == [hasName |-> FALSE, displayName |-> <<>>, photoURL |-> "null"]

DefaultAvatar == "https://cdn-icons-png.flaticon.com/512/847/847969.png"
NotAvailableAlert == "Login is not available right now (Firebase not configured)."
SplitTypeError == "Cannot read properties of null (reading 'split')"
ProviderErrors == {"popup closed", "network request failed"}

\* s.split(' ')[0]: the characters before the first space
RECURSIVE FirstWord(_)
FirstWord(s) ==
  IF s = <<>> \/ Head(s) = " " THEN <<>> ELSE <<Head(s)>> \o FirstWord(Tail(s))

\* The markup as served: login frame shown, main content and the user's
\* avatar/name hidden.
PageUi == [loginHidden |-> FALSE, mainHidden |-> TRUE, avatarHidden |-> TRUE,
           nameHidden |-> TRUE, avatarSrc |-> None, nameText |-> <<>>]

\* updateUIForSignedInUser(user) applied to u: the resulting ui and whether
\* user.displayName.split threw (after the avatar was already updated).
UpdateUIForSignedInUser(u, user) ==
  LET a == IF auDom.userAvatar
             THEN [u EXCEPT !.avatarSrc = IF user.photoURL = None THEN DefaultAvatar ELSE user.photoURL,
                            !.avatarHidden = FALSE]
             ELSE u
  IN IF ~auDom.userNameDisplay THEN [ui |-> a, threw |-> FALSE]
     ELSE IF ~user.hasName THEN [ui |-> a, threw |-> TRUE]
     ELSE [ui |-> [a EXCEPT !.nameText = <<"H", "i", ",", " ">> \o FirstWord(user.displayName),
                            !.nameHidden = FALSE],
           threw |-> FALSE]

\* transitionToMainContent()
TransitionToMainContent(u) ==
  IF auDom.loginFrame /\ auDom.mainContent
    THEN [u EXCEPT !.loginHidden = TRUE, !.mainHidden = FALSE]
    ELSE u

AuInit ==
  /\ sdk \in SdkStates
  /\ auDom \in [loginFrame : BOOLEAN, mainContent : BOOLEAN, userAvatar : BOOLEAN,
                userNameDisplay : BOOLEAN, loginBtn : BOOLEAN]
  /\ auPc = "boot"
  /\ auth = FALSE
  /\ googleProvider = FALSE
  /\ ui = PageUi
  /\ auAlerts = <<>>
  /\ popups = 0
  /\ signOuts = 0
  /\ auLast = [ev |-> "page", user |-> NoUser, msg |-> None]

\* Faulty variant: the script ends without the no-auth fallback.
AuthScriptLoadGated ==
  /\ auPc = "boot"
  /\ auPc' = "ready"
  /\ auth' = (sdk = "ok")
  /\ googleProvider' = (sdk \in {"ok", "initThrows"})
  /\ ui' = ui
  /\ auLast' = [ev |-> "load", user |-> NoUser, msg |-> None]
  /\ UNCHANGED <<sdk, auDom, auAlerts, popups, signOuts>>
  /\ UNCHANGED notAu

\* Top level of auth.js: Firebase init, provider, no-auth fallback, listeners.
AuthScriptLoad ==
  /\ auPc = "boot"
  /\ auPc' = "ready"
  /\ auth' = (sdk = "ok")
  /\ googleProvider' = (sdk \in {"ok", "initThrows"})
  /\ ui' = (IF sdk # "ok" THEN TransitionToMainContent(ui) ELSE ui)
  /\ auLast' = [ev |-> "load", user |-> NoUser, msg |-> None]
  /\ UNCHANGED <<sdk, auDom, auAlerts, popups, signOuts>>
  /\ UNCHANGED notAu

\* signInWithGoogle without auth or provider: alert and return
SignInUnavailable ==
  /\ auPc = "ready" /\ auDom.loginBtn
  /\ ~auth \/ ~googleProvider
  /\ Len(auAlerts) < MaxAuAlerts
  /\ auAlerts' = Append(auAlerts, NotAvailableAlert)
  /\ auLast' = [ev |-> "click", user |-> NoUser, msg |-> None]
  /\ UNCHANGED <<sdk, auDom, auPc, auth, googleProvider, ui, popups, signOuts>>
  /\ UNCHANGED notAu

\* signInWithGoogle: auth.signInWithPopup(googleProvider)
SignInWithGoogle ==
  /\ auPc = "ready" /\ auDom.loginBtn
  /\ auth /\ googleProvider
  /\ popups < MaxPopups
  /\ popups' = popups + 1
  /\ auLast' = [ev |-> "click", user |-> NoUser, msg |-> None]
  /\ UNCHANGED <<sdk, auDom, auPc, auth, googleProvider, ui, auAlerts, signOuts>>
  /\ UNCHANGED notAu

\* .then(result => ...): updateUIForSignedInUser, transitionToMainContent
PopupResolved ==
  /\ popups > 0
  /\ \E user \in Users :
       LET r == UpdateUIForSignedInUser(ui, user) IN
       /\ ~r.threw
       /\ ui' = TransitionToMainContent(r.ui)
       /\ auLast' = [ev |-> "resolved", user |-> user, msg |-> None]
  /\ popups' = popups - 1
  /\ UNCHANGED <<sdk, auDom, auPc, auth, googleProvider, auAlerts, signOuts>>
  /\ UNCHANGED notAu

\* .then(...) throws inside updateUIForSignedInUser; the chained .catch alerts
PopupResolvedThrows ==
  /\ popups > 0
  /\ Len(auAlerts) < MaxAuAlerts
  /\ \E user \in Users :
       LET r == UpdateUIForSignedInUser(ui, user) IN
       /\ r.threw
       /\ ui' = r.ui
       /\ auAlerts' = Append(auAlerts, <<"Login failed: ", SplitTypeError>>)
       /\ auLast' = [ev |-> "resolved", user |-> user, msg |-> None]
  /\ popups' = popups - 1
  /\ UNCHANGED <<sdk, auDom, auPc, auth, googleProvider, signOuts>>
  /\ UNCHANGED notAu

\* Faulty variant: the catch handler also moves past the login frame.
PopupRejectedTransitions ==
  /\ popups > 0
  /\ Len(auAlerts) < MaxAuAlerts
  /\ \E msg \in ProviderErrors :
       /\ auAlerts' = Append(auAlerts, <<"Login failed: ", msg>>)
       /\ auLast' = [ev |-> "rejected", user |-> NoUser, msg |-> msg]
  /\ ui' = TransitionToMainContent(ui)
  /\ popups' = popups - 1
  /\ UNCHANGED <<sdk, auDom, auPc, auth, googleProvider, signOuts>>
  /\ UNCHANGED notAu

\* signInWithPopup rejects: .catch(error => alert("Login failed: " + error.message))
PopupRejected ==
  /\ popups > 0
  /\ Len(auAlerts) < MaxAuAlerts
  /\ \E msg \in ProviderErrors :
       /\ auAlerts' = Append(auAlerts, <<"Login failed: ", msg>>)
       /\ auLast' = [ev |-> "rejected", user |-> NoUser, msg |-> msg]
  /\ popups' = popups - 1
  /\ UNCHANGED <<sdk, auDom, auPc, auth, googleProvider, ui, signOuts>>
  /\ UNCHANGED notAu

\* auth.onAuthStateChanged callback with a user; an exception of
\* updateUIForSignedInUser ends the callback before the transition.
AuthStateSignedIn ==
  /\ auPc = "ready" /\ auth
  /\ \E user \in Users :
       LET r == UpdateUIForSignedInUser(ui, user) IN
       /\ ui' = (IF r.threw THEN r.ui
                 ELSE IF auDom.loginFrame /\ auDom.mainContent
                         /\ ~r.ui.loginHidden /\ r.ui.mainHidden
                   THEN TransitionToMainContent(r.ui)
                   ELSE r.ui)
       /\ auLast' = [ev |-> "state", user |-> user, msg |-> None]
  /\ UNCHANGED <<sdk, auDom, auPc, auth, googleProvider, auAlerts, popups, signOuts>>
  /\ UNCHANGED notAu

\* auth.onAuthStateChanged callback with null
AuthStateSignedOut ==
  /\ auPc = "ready" /\ auth
  /\ auLast' = [ev |-> "stateNull", user |-> NoUser, msg |-> None]
  /\ UNCHANGED <<sdk, auDom, auPc, auth, googleProvider, ui, auAlerts, popups, signOuts>>
  /\ UNCHANGED notAu

\* window.location.reload(): the page as served, the script not yet run;
\* promises of the old page are gone
Reloaded ==
  /\ auPc' = "boot"
  /\ auth' = FALSE
  /\ googleProvider' = FALSE
  /\ ui' = PageUi
  /\ auAlerts' = <<>>
  /\ popups' = 0
  /\ signOuts' = 0
  /\ UNCHANGED <<sdk, auDom>>
  /\ UNCHANGED notAu

\* signOut() without auth: reload at once
SignOutNoAuth ==
  /\ auPc = "ready" /\ ~auth
  /\ auLast' = [ev |-> "signOutReload", user |-> NoUser, msg |-> None]
  /\ Reloaded

\* signOut() with auth: auth.signOut()
SignOut ==
  /\ auPc = "ready" /\ auth
  /\ signOuts = 0
  /\ signOuts' = signOuts + 1
  /\ auLast' = [ev |-> "signOut", user |-> NoUser, msg |-> None]
  /\ UNCHANGED <<sdk, auDom, auPc, auth, googleProvider, ui, auAlerts, popups>>
  /\ UNCHANGED notAu

\* auth.signOut() resolves: reload
SignOutResolved ==
  /\ signOuts > 0
  /\ auLast' = [ev |-> "signedOutReload", user |-> NoUser, msg |-> None]
  /\ Reloaded

\* auth.signOut() rejects: console.error only
SignOutRejected ==
  /\ signOuts > 0
  /\ signOuts' = signOuts - 1
  /\ auLast' = [ev |-> "signOutError", user |-> NoUser, msg |-> None]
  /\ UNCHANGED <<sdk, auDom, auPc, auth, googleProvider, ui, auAlerts, popups>>
  /\ UNCHANGED notAu

AuNext ==
  \/ AuthScriptLoad
  \/ SignInUnavailable
  \/ SignInWithGoogle
  \/ PopupResolved
  \/ PopupResolvedThrows
  \/ PopupRejected
  \/ AuthStateSignedIn
  \/ AuthStateSignedOut
  \/ SignOutNoAuth
  \/ SignOut
  \/ SignOutResolved
  \/ SignOutRejected

(***************************************************************************)
(*                   TRANSLATION LAYER  (language.js)                      *)
(***************************************************************************)

\* ---- bounds of the translation model ----
MaxLangEvents == 3
MaxChunkEvents == 1

\* const CHUNK = 80
CHUNK == 80

\* the languages of LANGS the model explores: English and two others
LANGS == {"en", "hi", "te"}
NonEnglish == LANGS \ {"en"}

\* ---- strings: sequences of characters ----
Space == " "

RECURSIVE TrimStart(_)
TrimStart(s) == IF s # <<>> /\ Head(s) = Space THEN TrimStart(Tail(s)) ELSE s

Reverse(s) == [i \in 1..Len(s) |-> s[Len(s) + 1 - i]]

\* String.prototype.trim
Trim(s) == Reverse(TrimStart(Reverse(TrimStart(s))))

\* The backend's translation of a string into lang: the string marked with the
\* language, so that a translation differs from its source and from the
\* translation into the other language.
Translate(lang, s) == <<(IF lang = "hi" THEN "h" ELSE "t")>> \o s

\* Bodies of a 2xx answer to {lang, texts} with an array `translations`: the
\* aligned translations, the same with an empty first entry, or one entry short.
Responses(lang, texts) ==
  LET full == [j \in 1..Len(texts) |-> Translate(lang, texts[j])]
  IN {full, [full EXCEPT ![1] = <<>>], SubSeq(full, 1, Len(texts) - 1)}

\* ---- localStorage ----
EmptyCache == [l \in NonEnglish |-> <<>>]

\* getLang(): the stored code, 'en' when nothing is stored
GetLang == IF storage.lang = None THEN "en" ELSE storage.lang

\* ---- DOM walkers ----
\* collectTextNodes: the nodes whose text is not blank, in document order
CollectTextNodes(nv) ==
  SelectSeq([i \in 1..Len(nv) |-> i], LAMBDA n : Trim(nv[n]) # <<>>)

\* collectTranslatableAttributes: {el, attr, val: val.trim()} for non-blank values
CollectTranslatableAttributes(av) ==
  LET ids == SelectSeq([i \in 1..Len(av) |-> i], LAMBDA a : Trim(av[a]) # <<>>)
  IN [i \in 1..Len(ids) |-> [a |-> ids[i], val |-> Trim(av[ids[i]])]]

\* Array.from(new Set(texts)): first occurrences, in order
Unique(texts) ==
  LET seen[i \in 0..Len(texts)] ==
        IF i = 0 THEN {} ELSE seen[i - 1] \cup {texts[i]}
      first == SelectSeq([i \in 1..Len(texts) |-> i], LAMBDA i : texts[i] \notin seen[i - 1])
  IN [k \in 1..Len(first) |-> texts[first[k]]]

\* cache[lang][t] is truthy
Cached(c, lang, t) == t \in DOMAIN c[lang] /\ c[lang][t] # <<>>

\* Faulty variant: every page string is requested, cached or not.
MissingIgnoringCache(c, lang, uniqueTexts) == uniqueTexts

\* uniqueTexts.filter((t) => !cache[lang][t])
Missing(c, lang, uniqueTexts) == SelectSeq(uniqueTexts, LAMBDA t : ~Cached(c, lang, t))

Min(a, b) == IF a < b THEN a ELSE b

\* Faulty variant: the slice runs one string into the next chunk.
SliceOverlapping(missing, i) == SubSeq(missing, i + 1, Min(i + CHUNK + 1, Len(missing)))

\* missing.slice(i, i + CHUNK)
Slice(missing, i) == SubSeq(missing, i + 1, Min(i + CHUNK, Len(missing)))

\* cache[lang][slice[j]] = translated[j] || slice[j], for every j
FillCache(c, lang, slice, translated) ==
  LET F[j \in 0..Len(slice)] ==
        IF j = 0 THEN c[lang]
        ELSE (slice[j] :> (IF j <= Len(translated) /\ translated[j] # <<>>
                             THEN translated[j] ELSE slice[j])) @@ F[j - 1]
  IN [c EXCEPT ![lang] = F[Len(slice)]]

\* node.nodeValue = cache[lang][key] || orig, for the nodes collected by the call
ApplyNodes(nv, orig, c, lang, nodes) ==
  LET collected == {nodes[k] : k \in 1..Len(nodes)} IN
  [n \in 1..Len(nv) |->
     IF n \in collected
       THEN LET o == IF orig[n].set /\ orig[n].val # <<>> THEN orig[n].val ELSE nv[n]
                key == Trim(o)
            IN IF key = <<>> THEN nv[n]
               ELSE IF Cached(c, lang, key) THEN c[lang][key] ELSE o
       ELSE nv[n]]

\* item.el.setAttribute(item.attr, cache[lang][key] || key), key = item.val
ApplyAttrs(av, c, lang, attrItems) ==
  LET F[k \in 0..Len(attrItems)] ==
        IF k = 0 THEN av
        ELSE LET key == attrItems[k].val
             IN [F[k - 1] EXCEPT ![attrItems[k].a] = IF Cached(c, lang, key) THEN c[lang][key] ELSE key]
  IN F[Len(attrItems)]

\* applyLanguage('en'): restore the recorded originals of the collected nodes/attributes
RestoreNodes(nv, orig) ==
  [n \in 1..Len(nv) |-> IF Trim(nv[n]) # <<>> /\ orig[n].set THEN orig[n].val ELSE nv[n]]

RestoreAttrs(av, orig) ==
  [a \in 1..Len(av) |-> IF Trim(av[a]) # <<>> /\ orig[a].set THEN orig[a].val ELSE av[a]]

\* if (!originalTextByNode.has(n)) originalTextByNode.set(n, n.nodeValue)
RecordTexts(orig, nv, nodes) ==
  LET collected == {nodes[k] : k \in 1..Len(nodes)} IN
  [n \in 1..Len(nv) |->
     IF n \in collected /\ ~orig[n].set
       THEN [set |-> TRUE, val |-> nv[n]] ELSE orig[n]]

\* if (origAttrs[attr] === undefined) origAttrs[attr] = val   (val is trimmed)
RecordAttrs(orig, av, attrItems) ==
  [a \in 1..Len(av) |->
     IF (\E k \in 1..Len(attrItems) : attrItems[k].a = a) /\ ~orig[a].set
       THEN [set |-> TRUE, val |-> Trim(av[a])] ELSE orig[a]]

NoOriginals(n) == [i \in 1..n |-> [set |-> FALSE, val |-> <<>>]]

\* ---- pages ----
\* one text node and one attribute: two different strings padded with spaces,
\* or the same string twice
SmallPages == {[nodes |-> <<<<Space, "a", Space>>>>, attrs |-> <<<<Space, "b">>>>],
               [nodes |-> <<<<"a">>>>, attrs |-> <<<<"a">>>>]}

\* the k-th of many distinct strings: k written with the digits a (0) and b (1)
RECURSIVE Digits(_)
Digits(k) == IF k = 0 THEN <<>> ELSE Append(Digits(k \div 2), IF k % 2 = 0 THEN "a" ELSE "b")

\* a page of n distinct strings, the first of them also in a second text node
\* (padded with spaces) and in an attribute
BigPage(n) ==
  [nodes |-> [k \in 1..(n + 1) |-> IF k <= n THEN Digits(k) ELSE <<Space>> \o Digits(1) \o <<Space>>],
   attrs |-> <<Digits(1)>>]

BigPages == {BigPage(n) : n \in {CHUNK, CHUNK + 1}}

\* what an earlier visit (of another page showing the string Digits(1)) may have
\* left in acd_lang_cache_v1
VisitedCache == [EmptyCache EXCEPT !["hi"] = (Digits(1) :> Translate("hi", Digits(1)))]

LaInitWith(pages, caches, budget) ==
  /\ page0 \in pages
  /\ laPc = "boot"
  /\ nodeValue = page0.nodes
  /\ attrValue = page0.attrs
  /\ originalTextByNode = NoOriginals(Len(page0.nodes))
  /\ originalAttrsByEl = NoOriginals(Len(page0.attrs))
  /\ selValue = "en"
  /\ storage \in {[lang |-> None, cache |-> c] : c \in caches}
  /\ calls = <<>>
  /\ laAlerts = 0
  /\ laBudget = budget
  /\ laLast = [ev |-> "page", lang |-> "en", call |-> 0]

LaInit == LaInitWith(SmallPages, {EmptyCache}, MaxLangEvents)

\* ---- applyLanguage ----
\* applyLanguage('en'): the whole call is synchronous
ApplyEnglish ==
  /\ nodeValue' = RestoreNodes(nodeValue, originalTextByNode)
  /\ attrValue' = RestoreAttrs(attrValue, originalAttrsByEl)
  /\ UNCHANGED <<originalTextByNode, originalAttrsByEl, calls>>

\* the record of a call: its private `cache`, the nodes and attribute items it
\* collected, `missing`, the loop index i; and, for the record, the stored cache
\* and the DOM it started from, the requests it has sent so far, and what its
\* last saveCache that did not throw wrote to acd_lang_cache_v1 (nothing yet)
NewCall(lang, cache, nodes, attrItems, missing) ==
  [lang |-> lang, cache |-> cache, startCache |-> storage.cache,
   startNodes |-> nodeValue, startAttrs |-> attrValue,
   nodes |-> nodes, attrItems |-> attrItems,
   missing |-> missing, i |-> 0,
   reqs |-> IF missing = <<>> THEN <<>> ELSE <<Slice(missing, 0)>>,
   answered |-> 0,
   saved |-> EmptyCache,
   status |-> IF missing = <<>> THEN "done" ELSE "wait"]

\* applyLanguage(lang), lang not 'en', up to the first `await translateBatch`; with
\* nothing missing the loop body never runs and the translations are applied at once
ApplyStart(lang, cache) ==
  LET nodes == CollectTextNodes(nodeValue)
      nodeTexts == [k \in 1..Len(nodes) |-> Trim(nodeValue[nodes[k]])]
      attrItems == CollectTranslatableAttributes(attrValue)
      attrTexts == [k \in 1..Len(attrItems) |-> attrItems[k].val]
      allTexts == SelectSeq(nodeTexts \o attrTexts, LAMBDA t : t # <<>>)
      uniqueTexts == Unique(allTexts)
      missing == Missing(cache, lang, uniqueTexts)
      origT == RecordTexts(originalTextByNode, nodeValue, nodes)
      origA == RecordAttrs(originalAttrsByEl, attrValue, attrItems)
  IN /\ originalTextByNode' = origT
     /\ originalAttrsByEl' = origA
     /\ calls' = Append(calls, NewCall(lang, cache, nodes, attrItems, missing))
     /\ IF missing = <<>>
          THEN /\ nodeValue' = ApplyNodes(nodeValue, origT, cache, lang, nodes)
               /\ attrValue' = ApplyAttrs(attrValue, cache, lang, attrItems)
          ELSE UNCHANGED <<nodeValue, attrValue>>

\* const cache = loadCache()
LoadCache == storage.cache

ApplyLanguage(lang) ==
  IF lang = "en" THEN ApplyEnglish ELSE ApplyStart(lang, LoadCache)

\* DOMContentLoaded: initSelector(); await applyLanguage(getLang())
DOMContentLoaded ==
  /\ laPc = "boot"
  /\ laPc' = "ready"
  /\ selValue' = GetLang
  /\ ApplyLanguage(GetLang)
  /\ laLast' = [ev |-> "load", lang |-> GetLang, call |-> Len(calls')]
  /\ UNCHANGED <<page0, storage, laAlerts, laBudget>>
  /\ UNCHANGED notLa

\* change handler of a selector, or AppLanguage.set(lang):
\* setLang(lang); selectors' value = lang; await applyLanguage(lang)
SetLanguage ==
  /\ laPc = "ready"
  /\ laBudget > 0
  /\ \E lang \in LANGS :
       /\ selValue' = lang
       /\ ApplyLanguage(lang)
       /\ laLast' = [ev |-> "set", lang |-> lang, call |-> Len(calls')]
       /\ storage' = [storage EXCEPT !.lang = lang]
  /\ laBudget' = laBudget - 1
  /\ UNCHANGED <<page0, laPc, laAlerts>>
  /\ UNCHANGED notLa

\* the request a waiting call has in flight
InFlight(c) == c.reqs[Len(c.reqs)]

\* saveCache(cache): localStorage.setItem may throw (quota), which is ignored
SaveCache(cache, saveOk) == IF saveOk THEN [storage EXCEPT !.cache = cache] ELSE storage

\* translateBatch resolves with data.translations: fill the call's cache, save it,
\* then request the next chunk or, after the last chunk, apply the translations
TranslateBatchOk ==
  \E k \in 1..Len(calls) :
    /\ calls[k].status = "wait"
    /\ \E translated \in Responses(calls[k].lang, InFlight(calls[k])), saveOk \in BOOLEAN :
         LET c == calls[k]
             cache1 == FillCache(c.cache, c.lang, InFlight(c), translated)
             i1 == c.i + CHUNK
             more == i1 < Len(c.missing)
         IN /\ storage' = SaveCache(cache1, saveOk)
            /\ calls' = [calls EXCEPT ![k] =
                 [c EXCEPT !.cache = cache1, !.i = i1, !.answered = c.answered + 1,
                           !.saved = IF saveOk THEN cache1 ELSE c.saved,
                           !.reqs = IF more THEN Append(c.reqs, Slice(c.missing, i1)) ELSE c.reqs,
                           !.status = IF more THEN "wait" ELSE "done"]]
            /\ IF more
                 THEN UNCHANGED <<nodeValue, attrValue>>
                 ELSE /\ nodeValue' = ApplyNodes(nodeValue, originalTextByNode, cache1, c.lang, c.nodes)
                      /\ attrValue' = ApplyAttrs(attrValue, cache1, c.lang, c.attrItems)
            /\ laLast' = [ev |-> IF more THEN "chunk" ELSE "applied", lang |-> c.lang, call |-> k]
    /\ UNCHANGED <<page0, laPc, originalTextByNode, originalAttrsByEl, selValue, laAlerts, laBudget>>
    /\ UNCHANGED notLa

\* Faulty variant: the catch block leaves the loop with `break`, so what is cached is applied.
TranslateBatchFailedBreaks ==
  \E k \in 1..Len(calls) :
    /\ calls[k].status = "wait"
    /\ laLast' = [ev |-> "failed", lang |-> calls[k].lang, call |-> k]
    /\ calls' = [calls EXCEPT ![k].status = "failed", ![k].answered = @ + 1]
    /\ nodeValue' = ApplyNodes(nodeValue, originalTextByNode, calls[k].cache, calls[k].lang, calls[k].nodes)
    /\ attrValue' = ApplyAttrs(attrValue, calls[k].cache, calls[k].lang, calls[k].attrItems)
    /\ UNCHANGED <<page0, laPc, originalTextByNode, originalAttrsByEl,
                   selValue, storage, laAlerts, laBudget>>
    /\ UNCHANGED notLa

\* translateBatch throws (fetch rejected, non-2xx, `translations` not an array):
\* console.warn and return
TranslateBatchFailed ==
  \E k \in 1..Len(calls) :
    /\ calls[k].status = "wait"
    /\ laLast' = [ev |-> "failed", lang |-> calls[k].lang, call |-> k]
    /\ calls' = [calls EXCEPT ![k].status = "failed", ![k].answered = @ + 1]
    /\ UNCHANGED <<page0, laPc, nodeValue, attrValue, originalTextByNode, originalAttrsByEl,
                   selValue, storage, laAlerts, laBudget>>
    /\ UNCHANGED notLa

\* The page is loaded again: the DOM as served, the WeakMaps and the pending
\* calls of the old page gone, localStorage kept.
PageReload ==
  /\ laPc = "ready"
  /\ laBudget > 0
  /\ laBudget' = laBudget - 1
  /\ laPc' = "boot"
  /\ nodeValue' = page0.nodes
  /\ attrValue' = page0.attrs
  /\ originalTextByNode' = NoOriginals(Len(page0.nodes))
  /\ originalAttrsByEl' = NoOriginals(Len(page0.attrs))
  /\ selValue' = "en"
  /\ calls' = <<>>
  /\ laLast' = [ev |-> "page", lang |-> "en", call |-> 0]
  /\ UNCHANGED <<page0, storage, laAlerts>>
  /\ UNCHANGED notLa

LaNext ==
  \/ DOMContentLoaded
  \/ SetLanguage
  \/ TranslateBatchOk
  \/ TranslateBatchFailed
  \/ PageReload

(***************************************************************************)
(*                          SPECIFICATIONS                                 *)
(***************************************************************************)

\* the emergency script with no event yet
EmIdle == EmInit /\ emDom = [userImage |-> TRUE, success |-> TRUE, submitBtn |-> TRUE]

\* auth.js not yet run, on a page with every element
AuIdle ==
  /\ AuInit
  /\ sdk = "ok"
  /\ auDom = [loginFrame |-> TRUE, mainContent |-> TRUE, userAvatar |-> TRUE,
              userNameDisplay |-> TRUE, loginBtn |-> TRUE]

\* language.js on a one-string page with no event to explore
LaIdle == LaInitWith({[nodes |-> <<<<"a">>>>, attrs |-> <<<<>>>>]}, {EmptyCache}, 0)

InitEmergency == EmInit /\ AuIdle /\ LaIdle

SpecEmergency == InitEmergency /\ [][EmNext]_vars

InitAuth == AuInit /\ EmIdle /\ LaIdle

InitLang == LaInit /\ EmIdle /\ AuIdle

\* the translation layer on small pages, calls overlapping freely
SpecLang == InitLang /\ [][LaNext]_vars

InitChunk == LaInitWith(BigPages, {EmptyCache, VisitedCache}, MaxChunkEvents) /\ EmIdle /\ AuIdle

\* the translation layer on pages of more than CHUNK strings
SpecChunk == InitChunk /\ [][LaNext]_vars

SpecAuth == InitAuth /\ [][AuNext]_vars

(***************************************************************************)
(*                              CLAIMS                                     *)
(***************************************************************************)

TwoMB == 2 * 1024 * 1024

\* the image input holds a first file of more than 2 MB
Oversize == Len(form.files) > 0 /\ form.files[1] > TwoMB

\* C1: a submit event with an image over 2 MB alerts and returns: no POST
\* /emergency is issued and the submit button is not changed; a POST is issued
\* only when no file is selected or the first file is at most 2 MB.
C1_OversizeNeverPosts ==
  [][/\ (emLast'.ev \in {"submit", "rejected"} /\ Oversize) =>
          /\ emLast'.ev = "rejected"
          /\ emPosts' = emPosts /\ emPending' = emPending
          /\ btn' = btn
          /\ emAlerts' = Append(emAlerts, SizeAlert)
     /\ (emPosts' # emPosts) => (form.files = <<>> \/ form.files[1] <= TwoMB)
    ]_vars

\* C1 witness: an image of 2 MB + 1 byte was submitted and rejected with nothing posted
C1_Witness ==
  /\ emLast.ev = "rejected"
  /\ form.files # <<>> /\ form.files[1] = TwoMB + 1
  /\ emAlerts = <<SizeAlert>>
  /\ emPosts = 0
  /\ ~btn.disabled

\* C8: an accepted submit issues exactly one POST /emergency and settling never
\* issues another; on 2xx the success message is shown and the form reset with no
\* alert; on a non-2xx response or a network error exactly one alert is shown (the
\* server's `error` text when the body has one), the success message is left as
\* it was and the form is not reset.
C8_SingleAttemptOutcome ==
  [][/\ (emPosts' # emPosts) =>
          (emLast'.ev = "submit" /\ emPosts' = emPosts + 1 /\ emPending' = emPending + 1)
     /\ (emLast'.ev = "submit") => (emPosts' = emPosts + 1)
     /\ (emLast'.ev = "settled") =>
          /\ emPosts' = emPosts
          /\ emPending' = emPending - 1
          /\ IF emLast'.resp.kind = "ok"
               THEN /\ (emDom.success => ~successHidden')
                    /\ form' = EmptyForm
                    /\ emAlerts' = emAlerts
               ELSE /\ successHidden' = successHidden
                    /\ form' = form
                    /\ Len(emAlerts') = Len(emAlerts) + 1
                    /\ SubSeq(emAlerts', 1, Len(emAlerts)) = emAlerts
                    /\ (emLast'.resp.kind = "http" /\ emLast'.resp.error \notin {None, "nullbody"})
                          => emAlerts'[Len(emAlerts')] = emLast'.resp.error
    ]_vars

\* C8 witness: a filled form was posted once, the server answered non-2xx with an
\* error text: that text was alerted, the success message is hidden, the form kept
C8_Witness ==
  /\ emLast.ev = "settled" /\ emLast.resp = [kind |-> "http", error |-> "Server busy"]
  /\ emAlerts = <<"Server busy">>
  /\ emPosts = 1 /\ emPending = 0
  /\ successHidden /\ emDom.success
  /\ form.text = "help"

\* C9 (as claimed): every non-null user reported by onAuthStateChanged while the
\* login frame is visible and the main content hidden hides the login frame and
\* shows the main content; a null user changes neither.
C9_AuthStateDrivesVisibility ==
  [][/\ (/\ auLast'.ev = "state"
         /\ auDom.loginFrame /\ auDom.mainContent
         /\ ~ui.loginHidden /\ ui.mainHidden)
          => (ui'.loginHidden /\ ~ui'.mainHidden)
     /\ (auLast'.ev = "stateNull") =>
          (ui'.loginHidden = ui.loginHidden /\ ui'.mainHidden = ui.mainHidden)
    ]_vars

\* C10: a rejected signInWithPopup shows exactly one alert, 'Login failed: '
\* followed by the provider's message, and changes the visibility of no element.
C10_RejectedPopupAlertsOnce ==
  [][(auLast'.ev = "rejected") =>
        /\ auAlerts' = Append(auAlerts, <<"Login failed: ", auLast'.msg>>)
        /\ auLast'.msg \in ProviderErrors
        /\ ui'.loginHidden = ui.loginHidden
        /\ ui'.mainHidden = ui.mainHidden
        /\ ui'.avatarHidden = ui.avatarHidden
        /\ ui'.nameHidden = ui.nameHidden
    ]_vars

\* C10 witness: the popup was rejected with the login frame still showing
C10_Witness ==
  /\ auLast.ev = "rejected"
  /\ auAlerts = <<<<"Login failed: ", "popup closed">>>>
  /\ auDom.loginFrame /\ auDom.mainContent
  /\ ~ui.loginHidden /\ ui.mainHidden

\* ---- translation layer ----

Settled == \A k \in DOMAIN calls : calls[k].status # "wait"

\* C2 (as claimed): after successful non-English applyLanguage calls, applyLanguage('en')
\* leaves every translated text node and attribute with exactly the value it was
\* served with, surrounding whitespace included.
C2_EnglishRestoresExactly ==
  (/\ laLast.ev = "set" /\ laLast.lang = "en"
   /\ \A k \in DOMAIN calls : calls[k].status = "done")
  => /\ \A n \in DOMAIN nodeValue :
          originalTextByNode[n].set => nodeValue[n] = page0.nodes[n]
     /\ \A a \in DOMAIN attrValue :
          originalAttrsByEl[a].set => attrValue[a] = page0.attrs[a]

\* C3: no POST /translate of a call for language L carries a string that the
\* stored cache held a translation of, for L, when the call started.
C3_NoCachedStringRequested ==
  \A k \in DOMAIN calls :
    \A m \in DOMAIN calls[k].reqs :
      \A j \in DOMAIN calls[k].reqs[m] :
        calls[k].reqs[m][j] \notin DOMAIN calls[k].startCache[calls[k].lang]

\* C3 witness: a call started on a page showing one string the cache had for its
\* language and one it had not, and requested only the latter
C3_Witness ==
  \E k \in DOMAIN calls :
    LET c == calls[k] IN
    /\ c.status = "wait"
    /\ Len(c.reqs) = 1 /\ Len(c.reqs[1]) = 1
    /\ Trim(c.startNodes[1]) \in DOMAIN c.startCache[c.lang]
    /\ Trim(c.startAttrs[1]) \notin DOMAIN c.startCache[c.lang]
    /\ c.reqs[1][1] = Trim(c.startAttrs[1])

\* C4: the step in which a POST /translate of a call fails changes no text node
\* and no attribute and shows no alert, and the failed call sends nothing more:
\* its record, requests included, never changes again.
C4_FailureLeavesPageUnchanged ==
  [][/\ (laLast'.ev = "failed") =>
          /\ nodeValue' = nodeValue
          /\ attrValue' = attrValue
          /\ laAlerts' = laAlerts
          /\ Len(calls') = Len(calls)
          /\ calls'[laLast'.call].reqs = calls[laLast'.call].reqs
          /\ calls'[laLast'.call].status = "failed"
     /\ \A k \in DOMAIN calls :
          (calls[k].status = "failed" /\ laPc' = "ready") =>
             (k \in DOMAIN calls' /\ calls'[k] = calls[k])
    ]_vars

\* C4 witness: the second chunk of a call failed after the first succeeded and
\* was saved; the page still shows what was served
C4_Witness ==
  /\ laLast.ev = "failed"
  /\ Len(calls[laLast.call].reqs) = 2
  /\ calls[laLast.call].status = "failed"
  /\ storage.cache[laLast.lang] # <<>>
  /\ nodeValue = page0.nodes /\ attrValue = page0.attrs

\* the page shows what applyLanguage('en') leaves: every recorded original in place
EnglishShown ==
  /\ \A n \in DOMAIN nodeValue :
       (originalTextByNode[n].set /\ Trim(nodeValue[n]) # <<>>)
          => nodeValue[n] = originalTextByNode[n].val
  /\ \A a \in DOMAIN attrValue :
       (originalAttrsByEl[a].set /\ Trim(attrValue[a]) # <<>>)
          => attrValue[a] = originalAttrsByEl[a].val

\* C5 (as claimed): the last selection wins: once every request has settled and
\* the selectors and acd_lang say 'en', the page shows English.
C5_LastSelectionWins ==
  (laPc = "ready" /\ Settled /\ selValue = "en" /\ storage.lang = "en") => EnglishShown

Range(q) == {q[j] : j \in DOMAIN q}

RECURSIVE TotalLen(_)
TotalLen(qs) == IF qs = <<>> THEN 0 ELSE Len(Head(qs)) + TotalLen(Tail(qs))

\* the strings a call requested in any of its requests
Requested(c) == UNION {Range(c.reqs[m]) : m \in DOMAIN c.reqs}

\* the unique, non-empty, trimmed strings of the page a call started on that had
\* no translation in the stored cache
Lacking(c) ==
  {t \in {Trim(v) : v \in Range(c.startNodes) \cup Range(c.startAttrs)} :
     t # <<>> /\ t \notin DOMAIN c.startCache[c.lang]}

\* C6: every POST /translate carries at most 80 strings (and at least one); a call
\* has at most one request unanswered, and none once it ended; no string is in
\* two requests of a call or twice in one; a call requests only page strings that
\* lacked a cached translation and, when it has run to its end, has requested
\* each of them.
C6_ChunkedExactlyOnce ==
  \A k \in DOMAIN calls :
    LET c == calls[k] IN
    /\ \A m \in DOMAIN c.reqs : Len(c.reqs[m]) >= 1 /\ Len(c.reqs[m]) <= 80
    /\ Len(c.reqs) - c.answered = (IF c.status = "wait" THEN 1 ELSE 0)
    /\ Cardinality(Requested(c)) = TotalLen(c.reqs)
    /\ Requested(c) \subseteq Lacking(c)
    /\ (c.status = "done") => Requested(c) = Lacking(c)

\* C6 witness: a call on a page of 81 strings lacking a translation ran to its
\* end with a request of 80 strings and then a request of one
C6_Witness ==
  \E k \in DOMAIN calls :
    /\ calls[k].status = "done"
    /\ Len(calls[k].reqs) = 2
    /\ Len(calls[k].reqs[1]) = 80 /\ Len(calls[k].reqs[2]) = 1
    /\ Cardinality(Lacking(calls[k])) = 81

\* the (language, string) entries of a cache
Entries(c) ==
  {e \in NonEnglish \X (UNION {DOMAIN c[l] : l \in NonEnglish}) : e[2] \in DOMAIN c[e[1]]}

\* C7 (as claimed): the set of (language, string) entries of the stored cache only grows.
C7_StoredCacheOnlyGrows ==
  [][Entries(storage.cache) \subseteq Entries(storage'.cache)]_vars

\* C11: when the Firebase SDK is not loaded or its initialisation throws, the
\* script load hides the login frame and shows the main content, a click on the
\* login button only alerts and starts no sign-in, signOut reloads the page,
\* and no SDK call (signInWithPopup, auth.signOut) is ever started.
C11_NoSdkNotGated ==
  [][sdk # "ok" =>
       /\ auLast'.ev \in {"load", "click", "signOutReload"}
       /\ popups' = 0 /\ signOuts' = 0
       /\ auLast'.ev = "load" =>
             /\ ~auth'
             /\ (auDom.loginFrame /\ auDom.mainContent) =>
                   (ui'.loginHidden /\ ~ui'.mainHidden)
       /\ auLast'.ev = "click" =>
             /\ auAlerts' = Append(auAlerts, NotAvailableAlert)
             /\ ui' = ui /\ auPc' = auPc
       /\ auLast'.ev = "signOutReload" =>
             /\ auPc' = "boot" /\ ui' = PageUi
    ]_vars

\* C11 witness: firebase.initializeApp threw, the page shows the main content,
\* and a click on the login button produced the one alert and no popup
C11_Witness ==
  /\ sdk = "initThrows" /\ auPc = "ready" /\ auLast.ev = "click"
  /\ auDom.loginFrame /\ auDom.mainContent /\ auDom.loginBtn
  /\ ui.loginHidden /\ ~ui.mainHidden
  /\ auAlerts = <<NotAvailableAlert>> /\ popups = 0

\* the requests of a call that were answered with a 2xx body
Answered(c) == 1..(IF c.status = "failed" THEN c.answered - 1 ELSE c.answered)

\* every string of an answered request is in the call's cache for the call's
\* language, with its translation or, failing that, with itself; and no entry
\* of a call's cache or of the stored cache is empty
FilledFromResponses ==
  /\ \A k \in DOMAIN calls :
       LET c == calls[k] IN
       /\ \A m \in Answered(c) : \A j \in DOMAIN c.reqs[m] :
            /\ c.reqs[m][j] \in DOMAIN c.cache[c.lang]
            /\ c.cache[c.lang][c.reqs[m][j]] \in {Translate(c.lang, c.reqs[m][j]), c.reqs[m][j]}
       /\ \A l \in NonEnglish : \A t \in DOMAIN c.cache[l] : c.cache[l][t] # <<>>
  /\ \A l \in NonEnglish : \A t \in DOMAIN storage.cache[l] : storage.cache[l][t] # <<>>

\* C12 (as claimed): a successful chunk response leaves each requested string
\* cached for the language with its translation, or with itself when the
\* translation is missing or empty; no cache entry is empty; and a request for
\* language L never carries a string that a call of this page had already
\* written to the stored cache for L.
C12_CachedNeverRequestedAgain ==
  [][/\ FilledFromResponses'
     /\ \A k \in DOMAIN calls' : \A m \in DOMAIN calls'[k].reqs :
          (k \notin DOMAIN calls \/ m \notin DOMAIN calls[k].reqs) =>
             \A j \in DOMAIN calls'[k].reqs[m] : \A p \in DOMAIN calls :
                calls'[k].reqs[m][j] \notin DOMAIN calls[p].saved[calls'[k].lang]
    ]_vars

\* the last event completed an applyLanguage call for a non-English language:
\* every chunk was answered 2xx and the translations were applied
AppliedLast ==
  /\ laPc = "ready"
  /\ laLast.ev \in {"applied", "set", "load"} /\ laLast.lang # "en"
  /\ laLast.call \in DOMAIN calls
  /\ calls[laLast.call].status = "done"

\* every entry the call's cache has for the call's language is the backend's
\* translation of its key (no entry fell back to the requested string)
AllTranslated(c) ==
  \A t \in DOMAIN c.cache[c.lang] : c.cache[c.lang][t] = Translate(c.lang, t)

\* C13 (as claimed): when applyLanguage(L) has completed successfully for a
\* non-English L, with a translation returned for every string, every text node
\* and attribute that is not blank shows the translation into L of the (trimmed)
\* value it was served with, whatever the page showed before the call.
C13_ShowsTranslationOfOriginal ==
  (AppliedLast /\ AllTranslated(calls[laLast.call])) =>
     /\ \A n \in DOMAIN nodeValue :
          Trim(page0.nodes[n]) # <<>> =>
             nodeValue[n] = Translate(laLast.lang, Trim(page0.nodes[n]))
     /\ \A a \in DOMAIN attrValue :
          Trim(page0.attrs[a]) # <<>> =>
             attrValue[a] = Translate(laLast.lang, Trim(page0.attrs[a]))

\* C14 (as claimed): when the last event completed applyLanguage(L) for a
\* non-English L (its cache saved, no other call pending), selecting L again
\* sends no POST /translate and changes no text node and no attribute.
C14_SameLanguageTwiceIdempotent ==
  [][(/\ AppliedLast /\ Settled
      /\ storage.cache = calls[laLast.call].cache
      /\ laLast'.ev = "set" /\ laLast'.lang = laLast.lang)
     => /\ calls'[Len(calls')].reqs = <<>>
        /\ nodeValue' = nodeValue
        /\ attrValue' = attrValue
    ]_vars

\* C15 (as claimed): opening the modal hides the success message; and while the
\* modal stays open and no submission has been started since it was opened, no
\* step shows the success message and only the user's editing changes the form:
\* the response to a submission of an earlier opening does neither.
C15_StaleResponseIgnored ==
  [][/\ (emLast'.ev = "open" /\ emDom.success) => successHidden'
     /\ (~modalHidden /\ ~modalHidden' /\ emPosts = postsAtOpen) =>
          /\ emDom.success => successHidden'
          /\ emLast'.ev # "edit" => form' = form
    ]_vars

\* C16 (as claimed): whenever signInWithPopup resolves with a user, whatever its
\* displayName and photoURL, the login frame ends hidden and the main content
\* visible (the page having both) and no alert is shown.
C16_ResolvedPopupEntersApp ==
  [][(auLast'.ev = "resolved") =>
        /\ (auDom.loginFrame /\ auDom.mainContent) =>
              (ui'.loginHidden /\ ~ui'.mainHidden)
        /\ auAlerts' = auAlerts
    ]_vars

\* C17: on a page with the submit button, an accepted submission disables it
\* with text 'Submitting...'; it then changes in no step until the POST settles,
\* and the step in which the POST settles, whatever the outcome, enables it with
\* text 'Submit'; the button is disabled exactly while a POST is in flight.
C17_ButtonReenabledOnSettle ==
  [][emDom.submitBtn =>
       /\ emLast'.ev = "submit" =>
             btn' = [disabled |-> TRUE, textContent |-> "Submitting..."]
       /\ (btn.disabled /\ emLast'.ev # "settled") => btn' = btn
       /\ emLast'.ev = "settled" =>
             /\ btn.disabled
             /\ btn' = [disabled |-> FALSE, textContent |-> "Submit"]
       /\ btn'.disabled <=> (emPending' > 0)
    ]_vars

\* C17 witness: a second submission was made after the first had failed, and
\* it failed with a network error too; the button is enabled with text 'Submit'
C17_Witness ==
  /\ emDom.submitBtn
  /\ emPosts = 2 /\ emPending = 0
  /\ emLast.ev = "settled" /\ emLast.resp.kind = "network"
  /\ Len(emAlerts) = 2
  /\ btn = [disabled |-> FALSE, textContent |-> "Submit"]

====
